---- MODULE Spec2Model ----
(***************************************************************************)
(* fp - find free ports (src/fp.c, version 1.1.0).                         *)
(*                                                                         *)
(* One invocation of the program: option parsing in main, then either the  *)
(* batch routine find_free_ports or the range routine                      *)
(* find_free_ports_range, then the printing of the result.  Every system   *)
(* call (socket, bind, getsockname, close) is one step, so that other      *)
(* processes binding and releasing ports interleave with the routine.      *)
(***************************************************************************)
EXTENDS Integers, Sequences, FiniteSets, TLC

\* ------------------------------------------------------------------ bounds
\* MAX_PORTS is 1024 and the largest port 65535 in the program; the model
\* keeps their roles and scales the numbers down.
MAX_PORTS == 3
PORT_MAX  == 3
\* number of command-line options getopt hands to the switch
MaxArgs   == 3

\* value of a slot of an automatic array that was never written; it differs
\* from every value the program stores (ports, descriptors, the -1 of a
\* failed socket())
Uninit == -2

Ports  == 1..PORT_MAX
Slots  == 0..(MAX_PORTS - 1)
\* arguments the options -n and -r can carry (atoi / sscanf results)
NVals  == (-1)..(MAX_PORTS + 1)
RVals  == 0..(PORT_MAX + 1)

VARIABLES
    pc,            \* position in main / the acquisition routine
    optcnt,        \* options consumed by getopt so far
    count, socktype, family, range_lo, range_hi, use_range,   \* main's locals
    r_seen,        \* history: an -r option reached the switch
    ports, rc, k,  \* main: result array, return code, print index
    exit_status,   \* -1 while running, else the process exit status
    out,           \* port lines written to standard output
    info,          \* other text written to standard output (-v, -h)
    fds, i, j,     \* find_free_ports: descriptor array, loop indexes
    range, start, found, ri, port, fd,   \* find_free_ports_range locals
    socks,         \* kernel: the sockets this process created, in creation order
    busy,          \* kernel: ports this process cannot bind (held by others)
    cause,         \* history: why the acquisition routine returned
    envStable      \* history: no other process bound/released a port so far

mainVars  == <<optcnt, count, socktype, family, range_lo, range_hi, use_range,
               r_seen>>
outVars   == <<ports, rc, k, exit_status, out, info>>
batchVars == <<fds, i, j>>
rangeVars == <<range, start, found, ri, port, fd>>
histVars  == <<cause, envStable>>
vars == <<pc, mainVars, outVars, batchVars, rangeVars, socks, busy, histVars>>

\* ------------------------------------------------------------ the kernel
\* setup_addr: loopback address of the family, port in network byte order.
\* htons() keeps the low 16 bits of its argument (scaled: PORT_MAX + 1 values).
htons(p) == p % (PORT_MAX + 1)

\* variant: the wildcard address instead of loopback
setup_addr_Any(fam, p) ==
    [family |-> fam,
     addr   |-> IF fam = "AF_INET" THEN "0.0.0.0" ELSE "::",
     sin_port |-> htons(p)]

setup_addr(fam, p) ==
    [family |-> fam,
     addr   |-> IF fam = "AF_INET" THEN "127.0.0.1" ELSE "::1",
     sin_port |-> htons(p)]

\* read_port: the port of the local address getsockname filled in
read_port(s) == s.port

\* ports held by open sockets of this process
OwnHeld == {socks[x].port : x \in {y \in DOMAIN socks : socks[y].st = "open"}} \ {0}

\* ports a bind of this process can obtain right now
FreePorts == Ports \ (busy \cup OwnHeld)

\* socket(): a new open, unbound socket appended to the creation order
NewSock(typ, fam) ==
    [st |-> "open", type |-> typ, family |-> fam, tried |-> FALSE,
     addr |-> "", req |-> 0, port |-> 0, free |-> FALSE, closes |-> 0]

\* bind() succeeded with the kernel giving port p to socket id
Bound(id, sa, p) ==
    [socks EXCEPT ![id].tried = TRUE, ![id].addr = sa.addr,
                  ![id].req = sa.sin_port, ![id].port = p,
                  ![id].free = (p \notin busy)]

\* bind() failed on socket id
BindFailed(id, sa) ==
    [socks EXCEPT ![id].tried = TRUE, ![id].addr = sa.addr,
                  ![id].req = sa.sin_port]

\* close(id)
Closed(id) ==
    IF id \in DOMAIN socks
    THEN [socks EXCEPT ![id].st = "closed", ![id].closes = @ + 1]
    ELSE socks

\* -------------------------------------------------------------------- Init
Init ==
    /\ pc = "getopt"
    /\ optcnt = 0
    /\ count = 1
    /\ socktype = "SOCK_STREAM"
    /\ family = "AF_INET"
    /\ range_lo = 0
    /\ range_hi = 0
    /\ use_range = FALSE
    /\ r_seen = FALSE
    /\ ports = [s \in Slots |-> Uninit]
    /\ rc = 0
    /\ k = 0
    /\ exit_status = -1
    /\ out = <<>>
    /\ info = "none"
    /\ fds = [s \in Slots |-> Uninit]
    /\ i = 0
    /\ j = 0
    /\ range = 0
    /\ start = 0
    /\ found = 0
    /\ ri = 0
    /\ port = 0
    /\ fd = Uninit
    /\ socks = <<>>
    /\ busy \in SUBSET Ports
    /\ cause = "none"
    /\ envStable = TRUE

\* process exit with status s
Exit(s) ==
    /\ pc' = "done"
    /\ exit_status' = s

\* ------------------------------------------------------------ main: getopt
\* variant: the lower bound of the count check off by one
CountOk_ZeroAllowed(c) == ~(c < 0 \/ c > MAX_PORTS)

\* variant: the upper bound of the count check off by one
CountOk_TooMany(c) == ~(c < 1 \/ c > MAX_PORTS + 1)

\* case 'n'
CountOk(c) == ~(c < 1 \/ c > MAX_PORTS)

OptN ==
    /\ pc = "getopt" /\ optcnt < MaxArgs
    /\ \E v \in NVals :
         /\ count' = v
         /\ IF CountOk(v)
            THEN /\ pc' = "getopt" /\ UNCHANGED exit_status
            ELSE Exit(1)
    /\ optcnt' = optcnt + 1
    /\ UNCHANGED <<socktype, family, range_lo, range_hi, use_range, r_seen>>
    /\ UNCHANGED <<ports, rc, k, out, info>>
    /\ UNCHANGED <<batchVars, rangeVars, socks, busy, histVars>>

\* case 'r', sscanf matched both numbers
RangeOk(lo, hi) == ~(lo < 1 \/ hi > PORT_MAX \/ lo > hi)

OptR ==
    /\ pc = "getopt" /\ optcnt < MaxArgs
    /\ \E lo \in RVals, hi \in RVals :
         /\ range_lo' = lo
         /\ range_hi' = hi
         /\ IF RangeOk(lo, hi)
            THEN /\ use_range' = TRUE /\ pc' = "getopt" /\ UNCHANGED exit_status
            ELSE /\ Exit(1) /\ UNCHANGED use_range
    /\ r_seen' = TRUE
    /\ optcnt' = optcnt + 1
    /\ UNCHANGED <<count, socktype, family>>
    /\ UNCHANGED <<ports, rc, k, out, info>>
    /\ UNCHANGED <<batchVars, rangeVars, socks, busy, histVars>>

\* case 'r', sscanf matched fewer than two numbers
OptRMalformed ==
    /\ pc = "getopt" /\ optcnt < MaxArgs
    /\ \/ UNCHANGED range_lo
       \/ \E lo \in RVals : range_lo' = lo
    /\ Exit(1)
    /\ r_seen' = TRUE
    /\ optcnt' = optcnt + 1
    /\ UNCHANGED <<count, socktype, family, range_hi, use_range>>
    /\ UNCHANGED <<ports, rc, k, out, info>>
    /\ UNCHANGED <<batchVars, rangeVars, socks, busy, histVars>>

\* case 'u'
OptU ==
    /\ pc = "getopt" /\ optcnt < MaxArgs
    /\ socktype' = "SOCK_DGRAM"
    /\ optcnt' = optcnt + 1
    /\ UNCHANGED <<pc, count, family, range_lo, range_hi, use_range, r_seen>>
    /\ UNCHANGED <<outVars, batchVars, rangeVars, socks, busy, histVars>>

\* case '6'
Opt6 ==
    /\ pc = "getopt" /\ optcnt < MaxArgs
    /\ family' = "AF_INET6"
    /\ optcnt' = optcnt + 1
    /\ UNCHANGED <<pc, count, socktype, range_lo, range_hi, use_range, r_seen>>
    /\ UNCHANGED <<outVars, batchVars, rangeVars, socks, busy, histVars>>

\* case 'v'
OptV ==
    /\ pc = "getopt" /\ optcnt < MaxArgs
    /\ info' = "version"
    /\ Exit(0)
    /\ optcnt' = optcnt + 1
    /\ UNCHANGED <<count, socktype, family, range_lo, range_hi, use_range, r_seen>>
    /\ UNCHANGED <<ports, rc, k, out>>
    /\ UNCHANGED <<batchVars, rangeVars, socks, busy, histVars>>

\* case 'h'
OptH ==
    /\ pc = "getopt" /\ optcnt < MaxArgs
    /\ info' = "usage"
    /\ Exit(0)
    /\ optcnt' = optcnt + 1
    /\ UNCHANGED <<count, socktype, family, range_lo, range_hi, use_range, r_seen>>
    /\ UNCHANGED <<ports, rc, k, out>>
    /\ UNCHANGED <<batchVars, rangeVars, socks, busy, histVars>>

\* default: unknown option, usage goes to the error stream
OptUnknown ==
    /\ pc = "getopt" /\ optcnt < MaxArgs
    /\ Exit(1)
    /\ optcnt' = optcnt + 1
    /\ UNCHANGED <<count, socktype, family, range_lo, range_hi, use_range, r_seen>>
    /\ UNCHANGED <<ports, rc, k, out, info>>
    /\ UNCHANGED <<batchVars, rangeVars, socks, busy, histVars>>

\* getopt returns -1; the count is checked against the range size and the
\* acquisition routine is chosen
FitsRange(c, lo, hi) == ~(c > (hi - lo + 1))

Dispatch ==
    /\ pc = "getopt"
    /\ IF use_range /\ ~FitsRange(count, range_lo, range_hi)
       THEN Exit(1)
       ELSE /\ pc' = IF use_range THEN "r_init" ELSE "b_socket"
            /\ UNCHANGED exit_status
    /\ UNCHANGED <<mainVars, ports, rc, k, out, info>>
    /\ UNCHANGED <<batchVars, rangeVars, socks, busy, histVars>>

\* the acquisition routine returns r to main
Return(r, why) ==
    /\ rc' = r
    /\ cause' = why
    /\ pc' = "ret"

\* ------------------------------------------------------- find_free_ports
\* variant: the open-and-bind loop stops one socket short
MoreToOpen_Short(n, c) == n < c - 1

\* variant: the open-and-bind loop runs once more than count
MoreToOpen_Extra(n, c) == n <= c

\* for (i = 0; i < count; i++) of the open-and-bind loop
MoreToOpen(n, c) == n < c

\* variant: the slot of the failed socket() is included in the cleanup
SocketFailCleanup_Include(n) == n + 1

\* value of i at the fail label after a failed socket() at index n
SocketFailCleanup(n) == n

\* first loop, socket(): fds[i] = socket(family, socktype, 0)
BatchSocket ==
    /\ pc = "b_socket"
    /\ IF MoreToOpen(i, count)
       THEN \/ /\ socks' = Append(socks, NewSock(socktype, family))
               /\ fds' = [fds EXCEPT ![i] = Len(socks) + 1]
               /\ pc' = "b_bind"
               /\ UNCHANGED <<i, j>>
            \/ /\ fds' = [fds EXCEPT ![i] = -1]        \* fds[i] < 0: goto fail
               /\ pc' = "b_fail"
               /\ j' = 0
               /\ i' = SocketFailCleanup(i)
               /\ UNCHANGED socks
       ELSE /\ i' = 0                                  \* all bound: read loop
            /\ pc' = "b_read"
            /\ UNCHANGED <<fds, j, socks>>
    /\ UNCHANGED <<mainVars, outVars, rangeVars, busy, histVars>>

\* variant: the socket whose bind failed is left out of the cleanup
BindFailCleanup_Skip(n) == n

\* value of i at the fail label after a failed bind at index n
BindFailCleanup(n) == n + 1

\* first loop, bind(fds[i], loopback:0)
BatchBind ==
    /\ pc = "b_bind"
    /\ LET sa == setup_addr(family, 0) IN
       \/ \E p \in FreePorts :
            /\ socks' = Bound(fds[i], sa, p)
            /\ i' = i + 1
            /\ pc' = "b_socket"
            /\ UNCHANGED j
       \/ /\ socks' = BindFailed(fds[i], sa)
          /\ i' = BindFailCleanup(i)                   \* include this fd in cleanup
          /\ pc' = "b_fail"
          /\ j' = 0
    /\ UNCHANGED <<mainVars, outVars, fds, rangeVars, busy, histVars>>

\* variant: every port is read from the first descriptor
ReadFd_First(a, n) == a[0]

\* descriptor whose local address the read loop queries for ports[n]
ReadFd(a, n) == a[n]

\* second loop, getsockname(fds[i]) and ports[i] = read_port(...)
BatchRead ==
    /\ pc = "b_read"
    /\ IF i < count
       THEN \/ /\ ReadFd(fds, i) \in DOMAIN socks     \* a valid descriptor
               /\ socks[ReadFd(fds, i)].st = "open"
               /\ ports' = [ports EXCEPT ![i] = read_port(socks[ReadFd(fds, i)])]
               /\ i' = i + 1
               /\ UNCHANGED <<pc, j>>
            \/ /\ i' = count                           \* fail_all
               /\ pc' = "b_fail"
               /\ j' = 0
               /\ UNCHANGED ports
       ELSE /\ i' = 0                                  \* close all
            /\ pc' = "b_close"
            /\ UNCHANGED <<ports, j>>
    /\ UNCHANGED <<mainVars, rc, k, exit_status, out, info>>
    /\ UNCHANGED <<fds, rangeVars, socks, busy, histVars>>

\* third loop, close(fds[i]); return 0
BatchClose ==
    /\ pc = "b_close"
    /\ IF i < count
       THEN /\ socks' = Closed(fds[i])
            /\ i' = i + 1
            /\ UNCHANGED <<pc, rc, histVars>>
       ELSE /\ Return(0, "ok")
            /\ UNCHANGED <<i, socks, envStable>>
    /\ UNCHANGED <<mainVars, ports, k, exit_status, out, info>>
    /\ UNCHANGED <<fds, j, rangeVars, busy>>

\* fail: for (j = 0; j < i; j++) close(fds[j]); return -1
BatchFail ==
    /\ pc = "b_fail"
    /\ IF j < i
       THEN /\ socks' = Closed(fds[j])
            /\ j' = j + 1
            /\ UNCHANGED <<pc, rc, histVars>>
       ELSE /\ Return(-1, "oserror")
            /\ UNCHANGED <<j, socks, envStable>>
    /\ UNCHANGED <<mainVars, ports, k, exit_status, out, info>>
    /\ UNCHANGED <<fds, i, rangeVars, busy>>

\* ------------------------------------------------- find_free_ports_range
\* int range = hi - lo + 1; int start = lo + ((unsigned)rand() % range)
RangeSize(lo, hi) == hi - lo + 1

RangeInit ==
    /\ pc = "r_init"
    /\ range' = RangeSize(range_lo, range_hi)
    /\ \E r \in 0..(RangeSize(range_lo, range_hi) - 1) :
         start' = range_lo + r
    /\ found' = 0
    /\ ri' = 0
    /\ pc' = "r_loop"
    /\ UNCHANGED <<mainVars, outVars, batchVars, port, fd, socks, busy, histVars>>

\* variant: the scan does not wrap from hi back to lo
RangePort_NoWrap(lo, st, n, rg) == st + n

\* variant: the scan runs backwards from the start
RangePort_Backward(lo, st, n, rg) == lo + ((st - lo + rg * n - n) % rg)

\* int port = lo + ((start - lo + i) % range)
RangePort(lo, st, n, rg) == lo + ((st - lo + n) % rg)

\* variant: an exhausted scan gets a return value of its own
RangeResult_Distinct(f, c) == IF f = c THEN 0 ELSE -2

\* return (found == count) ? 0 : -1
RangeResult(f, c) == IF f = c THEN 0 ELSE -1

\* variant: the scan stops one candidate short of the interval
ScanMore_Short(n, rg, f, c) == n < rg - 1 /\ f < c

\* variant: the scan takes one candidate more than the interval holds
ScanMore_Extra(n, rg, f, c) == n <= rg /\ f < c

\* variant: the scan goes on after count ports were found
ScanMore_NoStop(n, rg, f, c) == n < rg

\* for (i = 0; i < range && found < count; i++)
ScanMore(n, rg, f, c) == n < rg /\ f < c

\* if (fd < 0) return -1
SocketFailResult == -1

\* loop head, candidate port and socket()
RangeLoop ==
    /\ pc = "r_loop"
    /\ IF ScanMore(ri, range, found, count)
       THEN /\ port' = RangePort(range_lo, start, ri, range)
            /\ \/ /\ socks' = Append(socks, NewSock(socktype, family))
                  /\ fd' = Len(socks) + 1
                  /\ pc' = "r_bind"
                  /\ UNCHANGED <<rc, histVars>>
               \/ /\ fd' = -1
                  /\ Return(SocketFailResult, "oserror")
                  /\ UNCHANGED <<socks, envStable>>
       ELSE /\ Return(RangeResult(found, count),
                      IF found = count THEN "ok" ELSE "exhausted")
            /\ UNCHANGED <<port, fd, socks, envStable>>
    /\ UNCHANGED <<mainVars, ports, k, exit_status, out, info>>
    /\ UNCHANGED <<batchVars, range, start, found, ri, busy>>

\* variant: the candidate is recorded whatever bind returned
Recorded_OnFailure(res) == res <= 0

\* if (bind(...) == 0) ports[found++] = port
Recorded(res) == res = 0

\* setup_addr(port) and bind(fd, loopback:port)
RangeBind ==
    /\ pc = "r_bind"
    /\ LET sa == setup_addr(family, port) IN
       \E res \in {0, -1} :
          /\ \/ /\ res = 0
                /\ \E p \in FreePorts :
                     /\ sa.sin_port \in {0, p}
                     /\ socks' = Bound(fd, sa, p)
             \/ /\ res = -1
                /\ sa.sin_port \notin FreePorts
                /\ socks' = BindFailed(fd, sa)
          /\ IF Recorded(res)
             THEN /\ ports' = [ports EXCEPT ![found] = port]
                  /\ found' = found + 1
             ELSE UNCHANGED <<ports, found>>
    /\ pc' = "r_close"
    /\ UNCHANGED <<mainVars, rc, k, exit_status, out, info>>
    /\ UNCHANGED <<batchVars, range, start, ri, port, fd, busy, histVars>>

\* variant: the probe socket is closed only when its bind failed
ProbeClosed_OnFailure(f) == IF socks[f].port # 0 THEN socks ELSE Closed(f)

\* close(fd) at the end of the loop body, after either outcome of bind
ProbeClosed(f) == Closed(f)

\* close(fd); i++
RangeClose ==
    /\ pc = "r_close"
    /\ socks' = ProbeClosed(fd)
    /\ ri' = ri + 1
    /\ pc' = "r_loop"
    /\ UNCHANGED <<mainVars, outVars, batchVars>>
    /\ UNCHANGED <<range, start, found, port, fd, busy, histVars>>

\* --------------------------------------------------------- main: the result
\* variant: the sign of the failure test is inverted
Failed_Positive(r) == r > 0

\* if (rc < 0) { ...; return 1; }
Failed(r) == r < 0

AfterCall ==
    /\ pc = "ret"
    /\ IF Failed(rc)
       THEN Exit(1) /\ UNCHANGED k
       ELSE /\ pc' = "print"
            /\ k' = 0
            /\ UNCHANGED exit_status
    /\ UNCHANGED <<mainVars, ports, rc, out, info>>
    /\ UNCHANGED <<batchVars, rangeVars, socks, busy, histVars>>

\* for (i = 0; i < count; i++) printf("%d\n", ports[i]); return 0
PrintPort ==
    /\ pc = "print"
    /\ IF k < count
       THEN /\ out' = Append(out, ports[k])
            /\ k' = k + 1
            /\ UNCHANGED <<pc, exit_status>>
       ELSE /\ Exit(0)
            /\ UNCHANGED <<out, k>>
    /\ UNCHANGED <<mainVars, ports, rc, info>>
    /\ UNCHANGED <<batchVars, rangeVars, socks, busy, histVars>>

\* ------------------------------------------------------- other processes
\* While the routine runs, another process binds a port no open socket holds,
\* or releases one.
Acquiring ==
    pc \in {"b_socket", "b_bind", "b_read", "b_close", "b_fail",
            "r_init", "r_loop", "r_bind", "r_close"}

EnvBind ==
    /\ Acquiring
    /\ \E p \in FreePorts : busy' = busy \cup {p}
    /\ envStable' = FALSE
    /\ UNCHANGED <<pc, mainVars, outVars, batchVars, rangeVars, socks>>
    /\ UNCHANGED cause

EnvRelease ==
    /\ Acquiring
    /\ \E p \in busy : busy' = busy \ {p}
    /\ envStable' = FALSE
    /\ UNCHANGED <<pc, mainVars, outVars, batchVars, rangeVars, socks>>
    /\ UNCHANGED cause

\* --------------------------------------------------------- specification
Next ==
    \/ OptN \/ OptR \/ OptRMalformed \/ OptU \/ Opt6 \/ OptV \/ OptH
    \/ OptUnknown \/ Dispatch
    \/ BatchSocket \/ BatchBind \/ BatchRead \/ BatchClose \/ BatchFail
    \/ RangeInit \/ RangeLoop \/ RangeBind \/ RangeClose
    \/ AfterCall \/ PrintPort
    \/ EnvBind \/ EnvRelease

Spec == Init /\ [][Next]_vars

\* ================================================================ claims
\* the routine has returned to main
Returned == pc \in {"ret", "print", "done"} /\ cause # "none"

\* the first c slots of array a hold pairwise distinct values
Distinct(a, c) ==
    \A x \in 0..(c - 1), y \in 0..(c - 1) : x # y => a[x] # a[y]

\* C1: in unconstrained mode, whenever find_free_ports succeeds, the result
\* holds exactly count ports (count in 1..MAX_PORTS), pairwise distinct and
\* each in [1, PORT_MAX], under any interleaving with other processes.
C1_BatchResult ==
    (~use_range /\ Returned /\ rc = 0) =>
        /\ count \in 1..MAX_PORTS
        /\ \A x \in 0..(count - 1) : ports[x] \in 1..PORT_MAX
        /\ \A x \in Slots : x >= count => ports[x] = Uninit
        /\ Distinct(ports, count)

C1_Witness ==
    /\ ~use_range /\ Returned /\ rc = 0
    /\ count = MAX_PORTS
    /\ ~envStable

\* C2: in range mode, whenever find_free_ports_range succeeds, the result
\* holds exactly count ports, each in [lo, hi], pairwise distinct, for every
\* start offset and every pattern of bind successes and failures.
C2_RangeResult ==
    (use_range /\ Returned /\ rc = 0) =>
        /\ 1 <= range_lo /\ range_lo <= range_hi /\ range_hi <= PORT_MAX
        /\ range_hi - range_lo + 1 >= count
        /\ found = count
        /\ \A x \in 0..(count - 1) :
              range_lo <= ports[x] /\ ports[x] <= range_hi
        /\ \A x \in Slots : x >= count => ports[x] = Uninit
        /\ Distinct(ports, count)

\* a success after a wrap from hi back to lo, with a failed bind on the way
\* and other processes active during the scan
C2_Witness ==
    /\ use_range /\ Returned /\ rc = 0
    /\ count >= 2
    /\ ports[count - 1] < start
    /\ \E id \in DOMAIN socks : socks[id].tried /\ socks[id].port = 0
    /\ ~envStable

\* C3: no socket opened by either routine is open once the routine has
\* returned, on any exit path.
C3_AllClosed ==
    Returned => \A id \in DOMAIN socks : socks[id].st = "closed"

\* the batch routine returned after bind() failed on its third socket
C3_Witness ==
    /\ Returned /\ ~use_range /\ rc = -1
    /\ Len(socks) = 3
    /\ socks[3].tried /\ socks[3].port = 0
    /\ socks[3].st = "closed"

\* C4: an invocation that reached acquisition ends either with status 0 and
\* exactly the count acquired ports on standard output, or with a non-zero
\* status and nothing on standard output; ports are written only after a
\* successful return.
C4_NoPartial ==
    /\ (pc = "done" /\ cause # "none") =>
          \/ /\ exit_status = 0
             /\ Len(out) = count
             /\ \A x \in 1..count : out[x] = ports[x - 1] /\ out[x] \in Ports
          \/ /\ exit_status # 0
             /\ out = <<>>
    /\ out # <<>> => (cause = "ok" /\ rc = 0 /\ Len(out) <= count)

\* a failed acquisition that had already found a port, ended with status 1
C4_Witness ==
    /\ pc = "done" /\ cause = "exhausted"
    /\ found >= 1
    /\ exit_status = 1 /\ out = <<>>

\* the configuration read so far breaks a bound of the request
Invalid ==
    \/ count < 1
    \/ count > MAX_PORTS
    \/ /\ r_seen
       /\ \/ range_lo < 1
          \/ range_hi > PORT_MAX
          \/ range_lo > range_hi
          \/ count > range_hi - range_lo + 1

\* no socket call has been made and no port printed
Untouched == socks = <<>> /\ out = <<>> /\ ~Acquiring /\ cause = "none"

C6_ReadAfterAllBound ==
    ~use_range =>
        /\ (pc = "b_read" \/ \E x \in Slots : ports[x] # Uninit) =>
              /\ Len(socks) = count
              /\ \A id \in DOMAIN socks : socks[id].port # 0
        /\ pc = "b_read" =>
              \A id \in DOMAIN socks : socks[id].st = "open"
        /\ \A x \in Slots : ports[x] # Uninit =>
              /\ x + 1 \in DOMAIN socks
              /\ ports[x] = socks[x + 1].port

\* all ports of a full batch read, every socket still open
C6_Witness ==
    /\ ~use_range /\ pc = "b_read"
    /\ count = MAX_PORTS /\ i = count
    /\ \A x \in 0..(count - 1) : ports[x] # Uninit
    /\ \A id \in DOMAIN socks : socks[id].st = "open"

\* C7 as stated: the value the range routine returns when the scan is
\* exhausted differs from the value it returns when socket() fails.
C7_Original ==
    (use_range /\ Returned) =>
        /\ cause = "exhausted" => rc # SocketFailResult
        /\ cause = "oserror" => rc # RangeResult(found, count)

\* C7 amended: both routines signal every failure with the same value -1,
\* whether the range was exhausted or a system call failed; 0 is returned
\* only on success, and main turns every failure into exit status 1.
C7_SingleFailureValue ==
    /\ Returned =>
          /\ cause \in {"exhausted", "oserror"} => rc = -1
          /\ cause = "ok" => rc = 0
          /\ cause = "exhausted" => (use_range /\ found < count /\ ri = range)
    /\ (pc = "done" /\ cause \in {"exhausted", "oserror"}) => exit_status = 1

\* an exhausted scan has returned
C7_Witness ==
    /\ use_range /\ Returned /\ cause = "exhausted"
    /\ rc = SocketFailResult
    /\ pc = "done"

\* a bind was attempted on port p by a socket of this invocation
Probed(p) == \E id \in DOMAIN socks : socks[id].tried /\ socks[id].req = p

\* number of sockets of this invocation whose bind succeeded
Successes == Cardinality({id \in DOMAIN socks : socks[id].port # 0})

FullScan == \A p \in range_lo..range_hi : Probed(p)

\* C8 as stated: whenever the range routine returns failure, every port of
\* [lo, hi] has been probed and fewer than count binds succeeded.
C8_Original ==
    (use_range /\ Returned /\ rc # 0) => (FullScan /\ Successes < count)

\* C8 amended: whenever the range routine returns failure, either a socket()
\* call failed (the routine returns at once, wherever the scan stands), or
\* every port of [lo, hi] has been probed and fewer than count binds
\* succeeded.
C8_FailureAfterFullScan ==
    (use_range /\ Returned /\ rc # 0) =>
        \/ cause = "oserror" /\ fd < 0
        \/ /\ cause = "exhausted"
           /\ FullScan
           /\ Len(socks) = range_hi - range_lo + 1
           /\ Successes < count
           /\ Successes = found

\* failure after a scan of at least three ports that found one of two
C8_Witness ==
    /\ use_range /\ Returned /\ rc # 0 /\ cause = "exhausted"
    /\ range >= 3 /\ count = 2 /\ found = 1
    /\ start > range_lo

\* the bindable ports of the interval
F == (range_lo..range_hi) \ busy

\* the interval in cyclic scan order start, ..., hi, lo, ..., start - 1
CyclicOrder ==
    [n \in 1..(range_hi - range_lo + 1) |->
        IF start + n - 1 <= range_hi
        THEN start + n - 1
        ELSE start + n - 1 - (range_hi - range_lo + 1)]

IsFree(p) == p \in F

FreeInOrder == SelectSeq(CyclicOrder, IsFree)

\* C9: with a fixed set F of bindable ports and no socket() failure, the
\* range search succeeds iff |F| >= count, and its result is the first count
\* elements of F in cyclic scan order.
C9_FixedEnvironment ==
    (use_range /\ Returned /\ envStable /\ cause # "oserror") =>
        /\ rc = 0 <=> Cardinality(F) >= count
        /\ rc = 0 => \A x \in 1..count : ports[x - 1] = FreeInOrder[x]

\* success that wrapped around and skipped an unbindable port
C9_Witness ==
    /\ use_range /\ Returned /\ envStable /\ rc = 0
    /\ count >= 2
    /\ ports[0] > ports[count - 1]
    /\ \E p \in range_lo..range_hi : p \in busy /\ Probed(p)

\* a socket of this invocation was bound to p on loopback at a moment when
\* no other process held p
BoundFree(p) ==
    \E id \in DOMAIN socks :
        /\ socks[id].port = p
        /\ socks[id].free
        /\ socks[id].addr \in {"127.0.0.1", "::1"}
        /\ socks[id].type = socktype /\ socks[id].family = family

\* C10: every port recorded or printed, in either mode, was successfully
\* bound on loopback by a socket of this invocation at a moment no other
\* process held it.
C10_FreeAtQuery ==
    /\ \A x \in Slots : ports[x] # Uninit => BoundFree(ports[x])
    /\ \A x \in 1..Len(out) : BoundFree(out[x])

\* a port was printed that another process has taken since
C10_Witness ==
    /\ pc = "done" /\ exit_status = 0
    /\ Len(out) = count
    /\ \E x \in 1..Len(out) : out[x] \in busy

\* the range routine has chosen its start offset
Scanning == use_range /\ (pc \in {"r_loop", "r_bind", "r_close"} \/ Returned)

\* port the socket id of the range scan was, or is about to be, bound to
Target(id) == IF socks[id].tried THEN socks[id].req ELSE port

\* C11: in the range scan the start lies in [lo, hi]; the k-th probe
\* (k = 0, 1, ...) targets lo + ((start - lo + k) mod range_size); every
\* probed port lies in [lo, hi]; no port is probed twice; at most
\* range_size = hi - lo + 1 probes are made.
C11_ScanOrder ==
    Scanning =>
        LET size == range_hi - range_lo + 1 IN
        /\ range_lo <= start /\ start <= range_hi
        /\ \A id \in DOMAIN socks :
              /\ Target(id) = range_lo + ((start - range_lo + (id - 1)) % size)
              /\ range_lo <= Target(id) /\ Target(id) <= range_hi
        /\ \A a \in DOMAIN socks, b \in DOMAIN socks :
              a # b => Target(a) # Target(b)
        /\ Len(socks) <= size
        /\ ri <= size
        /\ Returned => \A id \in DOMAIN socks : socks[id].tried

\* a scan of a three-port interval that wrapped and used every probe
C11_Witness ==
    /\ Scanning /\ Returned
    /\ range_hi - range_lo + 1 >= 3
    /\ Len(socks) = range_hi - range_lo + 1
    /\ start > range_lo
    /\ socks[Len(socks)].req = start - 1

\* C12: the range search stops as soon as count ports are found: no socket
\* is created and no port probed after the count-th successful bind, and the
\* number of recorded ports never exceeds count.
C12_StopAtCount ==
    Scanning =>
        /\ found <= count
        /\ Successes <= count
        /\ Successes = found
        /\ Cardinality({x \in Slots : ports[x] # Uninit}) = found
        /\ Successes = count =>
              /\ socks[Len(socks)].port # 0
              /\ pc \in {"r_close", "r_loop", "ret", "print", "done"}

\* two ports found in the first two probes of a longer interval
C12_Witness ==
    /\ use_range /\ Returned /\ rc = 0
    /\ count = 2 /\ found = 2
    /\ Len(socks) = 2
    /\ range_hi - range_lo + 1 > 2

\* sockets of this invocation that are open
OpenSocks == {id \in DOMAIN socks : socks[id].st = "open"}

\* C13: in the range search at most one probe socket is open at any point,
\* and each probe socket is closed, whatever its bind returned, before the
\* next candidate's socket is created.
C13_MomentaryHold ==
    Scanning =>
        /\ Cardinality(OpenSocks) <= 1
        /\ \A id \in DOMAIN socks : id < Len(socks) => socks[id].st = "closed"
        /\ OpenSocks # {} => (pc \in {"r_bind", "r_close"} /\ OpenSocks = {fd})
        /\ pc = "r_loop" => OpenSocks = {}

\* third probe open after one earlier bind succeeded and one failed
C13_Witness ==
    /\ Scanning /\ pc = "r_close"
    /\ Len(socks) = 3
    /\ OpenSocks = {3}
    /\ \E a \in 1..2, b \in 1..2 : socks[a].port # 0 /\ socks[b].port = 0

\* the batch routine has been entered
Batching ==
    ~use_range /\ (pc \in {"b_socket", "b_bind", "b_read", "b_close", "b_fail"}
                   \/ Returned)

\* socket() and bind() calls the batch routine has made
SocketCalls == Cardinality({x \in Slots : fds[x] # Uninit})

BindCalls == Cardinality({id \in DOMAIN socks : socks[id].tried})

\* a socket() or a bind() of the batch routine has failed
OpenFailed ==
    \/ \E x \in Slots : fds[x] = -1
    \/ \E id \in DOMAIN socks : socks[id].tried /\ socks[id].port = 0

\* C14: unconstrained acquisition fails atomically without retry: the first
\* socket() or bind() failure is the last socket(), bind() or getsockname()
\* call of the run, the routine returns failure, and at most count socket()
\* and count bind() calls are made.
C14_NoRetry ==
    Batching =>
        /\ SocketCalls <= count
        /\ BindCalls <= count
        /\ BindCalls <= SocketCalls
        /\ OpenFailed =>
              /\ pc \in {"b_fail", "ret", "done"}
              /\ \A x \in Slots : ports[x] = Uninit
              /\ \A x \in Slots : fds[x] = -1 =>
                    /\ SocketCalls = x + 1
                    /\ BindCalls = x
                    /\ \A id \in DOMAIN socks : socks[id].port # 0
              /\ \A id \in DOMAIN socks : (socks[id].tried /\ socks[id].port = 0) =>
                    /\ id = Len(socks)
                    /\ SocketCalls = id
                    /\ BindCalls = id
              /\ Returned => (rc = -1 /\ cause = "oserror")
              /\ pc = "done" => (exit_status = 1 /\ out = <<>>)

\* a batch of three given up at the failed bind of its second socket
C14_Witness ==
    /\ Batching /\ Returned /\ rc = -1
    /\ count = 3
    /\ Len(socks) = 2
    /\ socks[2].tried /\ socks[2].port = 0
    /\ fds[2] = Uninit

\* the loopback address of a family
Loopback(fam) == IF fam = "AF_INET" THEN "127.0.0.1" ELSE "::1"

\* C15: every socket is created with the configured type and family, and
\* every bind targets the loopback address of that family (127.0.0.1 or
\* ::1), with port 0 in unconstrained mode and the candidate port in range
\* mode.
C15_LoopbackOnly ==
    /\ socktype \in {"SOCK_STREAM", "SOCK_DGRAM"}
    /\ family \in {"AF_INET", "AF_INET6"}
    /\ \A id \in DOMAIN socks :
          /\ socks[id].type = socktype
          /\ socks[id].family = family
          /\ socks[id].tried =>
                /\ socks[id].addr = Loopback(family)
                /\ socks[id].addr \notin {"0.0.0.0", "::"}
                /\ socks[id].req = IF use_range THEN CyclicOrder[id] ELSE 0
                /\ use_range => socks[id].port \in {0, socks[id].req}

\* three datagram sockets bound to ::1 with port 0
C15_Witness ==
    /\ ~use_range /\ count = 3
    /\ socktype = "SOCK_DGRAM" /\ family = "AF_INET6"
    /\ Len(socks) = 3
    /\ \A id \in DOMAIN socks :
          /\ socks[id].tried /\ socks[id].port # 0
          /\ socks[id].addr = "::1" /\ socks[id].req = 0

\* slot x of fds holds a descriptor that is open
HoldsOpen(x) ==
    /\ x \in Slots
    /\ fds[x] \in DOMAIN socks
    /\ socks[fds[x]].st = "open"

\* C16: in find_free_ports every created descriptor is closed exactly once
\* and close() is only applied to a slot holding an open descriptor: after a
\* socket() failure at index i exactly fds[0..i-1] are closed, after a bind()
\* failure exactly fds[0..i], after a getsockname() failure or on success
\* exactly fds[0..count-1].
C16_CloseOnce ==
    Batching =>
        /\ \A id \in DOMAIN socks : socks[id].closes <= 1
        /\ \A id \in DOMAIN socks : socks[id].st = "closed" <=> socks[id].closes = 1
        /\ \A x \in Slots : fds[x] \notin {Uninit, -1} => fds[x] = x + 1
        /\ (pc = "b_fail" /\ j < i) => HoldsOpen(j)
        /\ (pc = "b_close" /\ i < count) => HoldsOpen(i)
        /\ pc = "b_fail" =>
              /\ i = Len(socks)
              /\ \A x \in Slots : fds[x] = -1 => x = i
              /\ \A id \in DOMAIN socks : socks[id].closes = (IF id <= j THEN 1 ELSE 0)
        /\ pc = "b_close" =>
              /\ Len(socks) = count
              /\ \A id \in DOMAIN socks : socks[id].closes = (IF id <= i THEN 1 ELSE 0)
        /\ Returned => \A id \in DOMAIN socks : socks[id].closes = 1

\* socket() failed at index 2: the two descriptors before it closed once each
C16_Witness ==
    /\ Batching /\ Returned
    /\ fds[2] = -1
    /\ Len(socks) = 2
    /\ \A id \in DOMAIN socks : socks[id].closes = 1

\* main has called an acquisition routine
Started == pc \notin {"getopt"} /\ (pc = "done" => cause # "none")

\* n is an index of the first count slots of an array of MAX_PORTS slots
InBounds(n) == 0 <= n /\ n < count /\ n \in Slots

\* C17: array accesses stay in bounds: count is in 1..MAX_PORTS once a
\* routine runs, every index about to be used on fds[] or ports[] lies in
\* [0, count-1], only slots below count are ever written, and in the range
\* search found < count at each write and found <= count always.
C17_InBounds ==
    Started =>
        /\ 1 <= count /\ count <= MAX_PORTS
        /\ pc = "b_socket" => (0 <= i /\ i <= count)
        /\ pc = "b_bind" => (InBounds(i) /\ fds[i] \in DOMAIN socks)
        /\ pc \in {"b_read", "b_close"} => (0 <= i /\ i <= count)
        /\ (pc \in {"b_read", "b_close"} /\ i < count) =>
              (InBounds(i) /\ fds[i] \in DOMAIN socks)
        /\ pc = "b_fail" => (0 <= j /\ j <= i /\ i <= count)
        /\ (pc = "b_fail" /\ j < i) => (InBounds(j) /\ fds[j] \in DOMAIN socks)
        /\ 0 <= found /\ found <= count
        /\ pc = "r_bind" => InBounds(found)
        /\ pc = "print" => (0 <= k /\ k <= count)
        /\ (pc = "print" /\ k < count) => (InBounds(k) /\ ports[k] # Uninit)
        /\ \A x \in Slots : (fds[x] # Uninit \/ ports[x] # Uninit) => x < count

\* the last slot of both arrays written by a batch of MAX_PORTS
C17_Witness ==
    /\ Started /\ ~use_range
    /\ count = MAX_PORTS
    /\ fds[MAX_PORTS - 1] # Uninit
    /\ ports[MAX_PORTS - 1] # Uninit
    /\ pc = "print" /\ k = count - 1

====
